---- MODULE Spec2Model ----
(***************************************************************************)
(* Model of the Azure OpenAI Realtime token service (backend/main.py):     *)
(* the POST /api/v1/token handler generate_token, its outbound call to the *)
(* provider, and the try/except translation of failures.                   *)
(*                                                                         *)
(* Text is modelled as a sequence of chunks (short strings); an f-string   *)
(* is the concatenation of its literal chunks and its interpolated texts,  *)
(* so "detail contains B" is a contiguous-subsequence test.                *)
(***************************************************************************)
EXTENDS Integers, Sequences, FiniteSets, TLC

VARIABLES env, frame, replies, limit

vars == <<env, frame, replies, limit>>

\* ------------------------------------------------------------- bounds
\* request slots of the server (handler coroutines that may exist)
NumReqs == 2
Reqs == 1..NumReqs

\* ------------------------------------------------------------- JSON values
Absent == [k |-> "absent"]
Null == [k |-> "null"]
Str(s) == [k |-> "str", s |-> s]
Obj(v) == [k |-> "obj", value |-> v]
Dict(cs, v, t) == [k |-> "dict", client_secret |-> cs, value |-> v, token |-> t]
List == [k |-> "list"]

\* shapes the provider may give to client_secret, value and token
CsShapes == {Absent, Null, Str("oops"), Obj(Absent), Obj(Str("")), Obj(Str("tokA"))}
ValShapes == {Absent, Null, Str(""), Str("tokB")}
TokShapes == {Absent, Str(""), Str("tokC")}
Dicts == {Dict(cs, v, t) : cs \in CsShapes, v \in ValShapes, t \in TokShapes}

\* Python's truth value of a JSON value (None, "" and {} are false)
Truthy(v) ==
    CASE v.k = "str" -> v.s # ""
      [] v.k = "obj" -> v.value.k # "absent"
      [] v.k = "dict" -> TRUE
      [] OTHER -> FALSE

\* repr() of a parsed JSON value, as interpolated by an f-string
PyReprScalar(v) ==
    CASE v.k = "null" -> <<"None">>
      [] v.k = "str" -> <<"'", v.s, "'">>
      [] v.k = "obj" ->
           IF v.value.k = "absent" THEN <<"{}">>
           ELSE <<"{", "'value': ">> \o
                (IF v.value.k = "null" THEN <<"None">> ELSE <<"'", v.value.s, "'">>)
                \o <<"}">>
      [] OTHER -> <<>>

PyReprItem(key, v, first) ==
    IF v.k = "absent" THEN <<>>
    ELSE (IF first THEN <<>> ELSE <<", ">>) \o <<key>> \o PyReprScalar(v)

PyRepr(d) ==
    IF d.k = "list" THEN <<"[]">>
    ELSE <<"{">>
         \o PyReprItem("'client_secret': ", d.client_secret, TRUE)
         \o PyReprItem("'value': ", d.value, d.client_secret.k = "absent")
         \o PyReprItem("'token': ", d.token,
                       d.client_secret.k = "absent" /\ d.value.k = "absent")
         \o <<"}">>

\* the provider's serialisation of a JSON body (response.text)
JsonScalar(v) ==
    CASE v.k = "null" -> <<"null">>
      [] v.k = "str" -> <<"\"", v.s, "\"">>
      [] v.k = "obj" ->
           IF v.value.k = "absent" THEN <<"{}">>
           ELSE <<"{", "\"value\":">> \o
                (IF v.value.k = "null" THEN <<"null">> ELSE <<"\"", v.value.s, "\"">>)
                \o <<"}">>
      [] OTHER -> <<>>

JsonItem(key, v, first) ==
    IF v.k = "absent" THEN <<>>
    ELSE (IF first THEN <<>> ELSE <<",">>) \o <<key>> \o JsonScalar(v)

JsonText(d) ==
    IF d.k = "list" THEN <<"[]">>
    ELSE <<"{">>
         \o JsonItem("\"client_secret\":", d.client_secret, TRUE)
         \o JsonItem("\"value\":", d.value, d.client_secret.k = "absent")
         \o JsonItem("\"token\":", d.token,
                     d.client_secret.k = "absent" /\ d.value.k = "absent")
         \o <<"}">>

\* ------------------------------------------------------------- environment
Unset == [k |-> "unset"]
Set(text) == [k |-> "set", text |-> text]

\* os.getenv(name) and os.getenv(name, default)
Getenv(e, name, default) == IF e[name].k = "set" THEN e[name].text ELSE default

PyNone == <<"None">>

DEFAULT_TRANSCRIPTION_MODEL == <<"gpt-4o-mini-transcribe">>

\* process configurations: the three required values are available, the
\* transcription model is optional
Envs ==
    { [AZURE_OPENAI_DEPLOYMENT |-> Set(<<"gpt-realtime">>),
       AZURE_OPENAI_ENDPOINT |-> Set(<<"https://east.example">>),
       AZURE_OPENAI_API_KEY |-> Set(<<"key-1">>),
       AZURE_OPENAI_TRANSCRIPTION_MODEL |-> Unset],
      [AZURE_OPENAI_DEPLOYMENT |-> Set(<<"gpt-realtime-mini">>),
       AZURE_OPENAI_ENDPOINT |-> Set(<<"https://west.example">>),
       AZURE_OPENAI_API_KEY |-> Set(<<"key-2">>),
       AZURE_OPENAI_TRANSCRIPTION_MODEL |-> Set(<<"whisper-1">>)] }

\* ------------------------------------------------------------- request
\* request bodies a client may send: voice omitted, or a free-form string
Inputs == {Absent, Str("verse"), Str("")}

DefaultVoice == "alloy"

\* variant: the voice has no default
TokenRequest_no_default(input) == [voice |-> IF input.k = "absent" THEN "" ELSE input.s]

TokenRequest(input) == [voice |-> IF input.k = "absent" THEN DefaultVoice ELSE input.s]

client_secrets_url(azure_endpoint) ==
    azure_endpoint \o <<"/openai/v1/realtime/client_secrets">>

session_config(request, deployment_name, transcription_model) ==
    [session |->
        [type |-> "realtime",
         model |-> deployment_name,
         instructions |-> "You are a helpful assistant. Maintain a calm, even tone throughout the conversation.",
         audio |->
            [input |->
                [transcription |-> [model |-> transcription_model, language |-> "en"],
                 turn_detection |->
                    [type |-> "server_vad",
                     threshold |-> "0.5",
                     prefix_padding_ms |-> 300,
                     silence_duration_ms |-> 500,
                     create_response |-> TRUE]],
             output |-> [voice |-> request.voice]]]]

\* the outbound POST of one request: url, headers and JSON body
Post(e, request) ==
    [url |-> client_secrets_url(Getenv(e, "AZURE_OPENAI_ENDPOINT", PyNone)),
     headers |-> [api_key |-> Getenv(e, "AZURE_OPENAI_API_KEY", PyNone),
                  content_type |-> "application/json"],
     json |-> session_config(request,
                             Getenv(e, "AZURE_OPENAI_DEPLOYMENT", PyNone),
                             Getenv(e, "AZURE_OPENAI_TRANSCRIPTION_MODEL",
                                    DEFAULT_TRANSCRIPTION_MODEL))]

\* ------------------------------------------------------------- provider replies
JsonBody(d) == [isjson |-> TRUE, data |-> d, text |-> JsonText(d)]
RawBody(text) == [isjson |-> FALSE, data |-> Null, text |-> text]
Http(status, body) == [status_code |-> status, body |-> body]

HTTP_OK == 200
HTTP_INTERNAL_ERROR == 500

OtherSuccess == {201}
ErrorStatuses == {401, 403}
ErrorTexts == {<<"Access", " denied">>, <<>>}

AllReplies ==
    {Http(HTTP_OK, JsonBody(d)) : d \in Dicts}
    \cup {Http(HTTP_OK, JsonBody(List)), Http(HTTP_OK, RawBody(<<"<html>">>))}
    \cup {Http(s, JsonBody(d)) : s \in OtherSuccess,
            d \in {Dict(Obj(Str("tokA")), Absent, Absent),
                   Dict(Absent, Str("tokB"), Absent),
                   Dict(Absent, Absent, Absent)}}
    \cup {Http(s, RawBody(t)) : s \in ErrorStatuses, t \in ErrorTexts}

ConcReplies ==
    {Http(HTTP_OK, JsonBody(Dict(Obj(Str("tokA")), Absent, Absent))),
     Http(HTTP_OK, JsonBody(Dict(Absent, Absent, Str("tokC")))),
     Http(401, RawBody(<<"Access", " denied">>))}

\* ------------------------------------------------------------- outcomes
Return(v) == [t |-> "return", value |-> v]
Raise(cls, status, detail) ==
    [t |-> "raise", cls |-> cls, status_code |-> status, detail |-> detail]
HTTPException(status, detail) == Raise("HTTPException", status, detail)

\* except httpx.HTTPError matches httpx's own errors only
IsHttpxHTTPError(exc) == exc.cls \in {"ConnectError", "ReadTimeout"}
\* except Exception matches every exception class, HTTPException included
IsException(exc) == exc.cls \in {"ConnectError", "ReadTimeout", "HTTPException",
                                 "AttributeError", "JSONDecodeError", "ValidationError"}

\* str(e): starlette's HTTPException prints "<status_code>: <detail>"
StrOfException(exc) ==
    IF exc.cls = "HTTPException"
    THEN <<ToString(exc.status_code), ": ">> \o exc.detail
    ELSE exc.detail

\* ------------------------------------------------------------- token extraction
\* dict.get(key): the value stored, None when the key is missing
PyGet(v) == IF v.k = "absent" THEN Null ELSE v

\* x or y
PyOr(x, y) == IF Truthy(x) THEN x ELSE y

NoAttributeGet(v) ==
    Raise("AttributeError", 0,
          <<CASE v.k = "null" -> "'NoneType'"
              [] v.k = "str" -> "'str'"
              [] OTHER -> "'list'",
            " object has no attribute 'get'">>)

\* response_data.get("client_secret", {}): the default only replaces a missing key
GetClientSecret(response_data) ==
    IF response_data.client_secret.k = "absent" THEN Obj(Absent)
    ELSE response_data.client_secret

\* response_data.get("client_secret", {}).get("value")
ClientSecretValue(response_data) ==
    LET cs == GetClientSecret(response_data)
    IN  IF cs.k = "obj" THEN Return(PyGet(cs.value)) ELSE NoAttributeGet(cs)

\* variant: the top-level value is looked up before client_secret.value
ephemeral_token_value_first(response_data) ==
    IF response_data.k # "dict" THEN NoAttributeGet(response_data)
    ELSE LET second == ClientSecretValue(response_data)
         IN  IF second.t = "raise" THEN second
             ELSE Return(PyOr(PyOr(PyGet(response_data.value), second.value),
                              PyGet(response_data.token)))

\* lines 111-115: the three lookups joined by "or", evaluated left to right
ephemeral_token(response_data) ==
    IF response_data.k # "dict" THEN NoAttributeGet(response_data)
    ELSE LET first == ClientSecretValue(response_data)
         IN  IF first.t = "raise" THEN first
             ELSE Return(PyOr(PyOr(first.value, PyGet(response_data.value)),
                              PyGet(response_data.token)))

\* variant: the endpoint returned is the client_secrets URL
webrtc_endpoint_secrets_path(azure_endpoint) ==
    azure_endpoint \o <<"/openai/v1/realtime/client_secrets">>

webrtc_endpoint(azure_endpoint) ==
    azure_endpoint \o <<"/openai/v1/realtime/calls?webrtcfilter=on">>

\* TokenResponse(token=..., endpoint=...): both fields must be strings
TokenResponse(token, endpoint) ==
    IF token.k = "str"
    THEN Return([token |-> token.s, endpoint |-> endpoint])
    ELSE Raise("ValidationError", 0, <<"1 validation error for TokenResponse">>)

\* response.json()
ResponseJson(response) ==
    IF response.body.isjson THEN Return(response.body.data)
    ELSE Raise("JSONDecodeError", 0, <<"Expecting value: line 1 column 1 (char 0)">>)

\* lines 101-105
UpstreamStatusCheck(response) ==
    IF response.status_code # HTTP_OK
    THEN HTTPException(response.status_code,
                       <<"Azure API error: ">> \o response.body.text)
    ELSE Return(response)

\* variant: the detail of a missing token leaves the body out
MissingTokenCheck_no_body(token, response_data) ==
    IF ~Truthy(token)
    THEN HTTPException(HTTP_INTERNAL_ERROR, <<"No ephemeral token in response.">>)
    ELSE Return(token)

\* variant: only None counts as a missing token ("is None" for "not")
MissingTokenCheck_none_only(token, response_data) ==
    IF token.k = "null"
    THEN HTTPException(HTTP_INTERNAL_ERROR,
                       <<"No ephemeral token in response. Got: ">> \o PyRepr(response_data))
    ELSE Return(token)

\* lines 117-121
MissingTokenCheck(token, response_data) ==
    IF ~Truthy(token)
    THEN HTTPException(HTTP_INTERNAL_ERROR,
                       <<"No ephemeral token in response. Got: ">> \o PyRepr(response_data))
    ELSE Return(token)

\* lines 101-129: the rest of the try block once the POST has returned
AfterPost(azure_endpoint, response) ==
    LET checked == UpstreamStatusCheck(response)
    IN  IF checked.t = "raise" THEN checked
        ELSE LET parsed == ResponseJson(response)
             IN  IF parsed.t = "raise" THEN parsed
                 ELSE LET found == ephemeral_token(parsed.value)
                      IN  IF found.t = "raise" THEN found
                          ELSE LET tok == MissingTokenCheck(found.value, parsed.value)
                               IN  IF tok.t = "raise" THEN tok
                                   ELSE TokenResponse(tok.value,
                                                      webrtc_endpoint(azure_endpoint))

\* lines 131-140: the except clauses, tried in order
ExceptClauses(outcome) ==
    IF outcome.t = "return" THEN outcome
    ELSE IF IsHttpxHTTPError(outcome)
         THEN HTTPException(HTTP_INTERNAL_ERROR,
                            <<"HTTP error: ">> \o StrOfException(outcome))
    ELSE IF IsException(outcome)
         THEN HTTPException(HTTP_INTERNAL_ERROR,
                            <<"Failed to generate token: ">> \o StrOfException(outcome))
    ELSE outcome

\* what the framework sends for the handler's outcome: the response model with
\* status 200, or {detail} with the HTTPException's status
ClientResponse(outcome) ==
    IF outcome.t = "return"
    THEN [status |-> HTTP_OK, token |-> outcome.value.token,
          endpoint |-> outcome.value.endpoint]
    ELSE [status |-> outcome.status_code, detail |-> outcome.detail]

\* ------------------------------------------------------------- handler frames
None == [k |-> "none"]

IdleFrame ==
    [pc |-> "idle", input |-> None, request |-> None, azure_endpoint |-> <<>>,
     posts |-> 0, sent |-> None, response |-> None, result |-> None]

\* what httpx raises when the POST cannot be carried out
TransportError == Raise("ConnectError", 0, <<"All connection attempts failed">>)

\* variant: the response lives at module level, where the reply to another
\* request that is also about to resume overwrites it
SharedLocals(r) ==
    frame[CHOOSE q \in Reqs :
            /\ frame[q].pc = "closing"
            /\ \A p \in Reqs : frame[p].pc = "closing" => p <= q]

\* the local variables of request r's coroutine
Locals(r) == frame[r]

\* variant: a failed attempt is retried with a new POST
FinishRetrying(f, outcome) ==
    IF outcome.t = "raise"
    THEN [f EXCEPT !.pc = "awaiting", !.posts = f.posts + 1, !.response = None]
    ELSE [f EXCEPT !.pc = "done", !.result = ClientResponse(ExceptClauses(outcome))]

\* how an invocation ends: its result is fixed and nothing more is sent
Finish(f, outcome) ==
    [f EXCEPT !.pc = "done", !.result = ClientResponse(ExceptClauses(outcome))]

InFlight == {r \in Reqs : frame[r].pc # "idle"}

\* ------------------------------------------------------------- actions
\* POST /api/v1/token arrives: lines 50-99 up to the await of client.post
Arrive(r, input) ==
    /\ frame[r].pc = "idle"
    /\ Cardinality(InFlight) < limit
    /\ LET request == TokenRequest(input)
       IN  frame' = [frame EXCEPT ![r] =
                [pc |-> "awaiting", input |-> input, request |-> request,
                 azure_endpoint |-> Getenv(env, "AZURE_OPENAI_ENDPOINT", PyNone),
                 posts |-> 1, sent |-> Post(env, request),
                 response |-> None, result |-> None]]
    /\ UNCHANGED <<env, replies, limit>>

\* the provider answers r's POST; the handler then awaits the client's close
UpstreamResponds(r, reply) ==
    /\ frame[r].pc = "awaiting"
    /\ reply \in replies
    /\ frame' = [frame EXCEPT ![r].pc = "closing", ![r].response = reply]
    /\ UNCHANGED <<env, replies, limit>>

\* the POST fails in transport: httpx raises an httpx.HTTPError out of line 92
TransportFails(r) ==
    /\ frame[r].pc = "awaiting"
    /\ frame' = [frame EXCEPT ![r] =
            Finish(frame[r], TransportError)]
    /\ UNCHANGED <<env, replies, limit>>

\* the handler resumes after the async with block: lines 101-140
Resume(r) ==
    /\ frame[r].pc = "closing"
    /\ frame' = [frame EXCEPT ![r] =
            Finish(frame[r], AfterPost(Locals(r).azure_endpoint, Locals(r).response))]
    /\ UNCHANGED <<env, replies, limit>>

\* the response is sent and the request's objects are discarded
Deliver(r) ==
    /\ frame[r].pc = "done"
    /\ frame' = [frame EXCEPT ![r] = IdleFrame]
    /\ UNCHANGED <<env, replies, limit>>

Next ==
    \E r \in Reqs :
        \/ \E input \in Inputs : Arrive(r, input)
        \/ \E reply \in AllReplies : UpstreamResponds(r, reply)
        \/ TransportFails(r)
        \/ Resume(r)
        \/ Deliver(r)

\* requests handled one after another, every reply shape
Init ==
    /\ env \in Envs
    /\ frame = [r \in Reqs |-> IdleFrame]
    /\ replies = AllReplies
    /\ limit = 1

\* every slot may be in flight at once, a few reply shapes
InitConc ==
    /\ env \in Envs
    /\ frame = [r \in Reqs |-> IdleFrame]
    /\ replies = ConcReplies
    /\ limit = NumReqs

Spec == Init /\ [][Next]_vars

SpecConc == InitConc /\ [][Next]_vars

\* ------------------------------------------------------------- properties
\* needle occurs in hay as a run of consecutive chunks
Contains(hay, needle) ==
    \E i \in 1..(Len(hay) - Len(needle) + 1) :
        SubSeq(hay, i, i + Len(needle) - 1) = needle

Done(r) == frame[r].pc = "done"
Replied(r) == frame[r].response # None
IsSuccess(res) == "token" \in DOMAIN res
IsError(res) == "detail" \in DOMAIN res

NonEmpty(v) == v.k = "str" /\ v.s # ""
AbsentOrEmpty(v) == v.k = "absent" \/ (v.k = "str" /\ v.s = "")
CsNonEmpty(d) == d.client_secret.k = "obj" /\ NonEmpty(d.client_secret.value)
CsWellFormed(d) == d.client_secret.k \in {"absent", "obj"}
HasToken(d) == CsNonEmpty(d) \/ NonEmpty(d.value) \/ NonEmpty(d.token)

\* the first non-empty of client_secret.value, value, token
PriorityToken(d) ==
    IF CsNonEmpty(d) THEN d.client_secret.value.s
    ELSE IF NonEmpty(d.value) THEN d.value.s
    ELSE d.token.s

RepliedDict(r) ==
    /\ Done(r) /\ Replied(r)
    /\ frame[r].response.body.isjson
    /\ frame[r].response.body.data.k = "dict"

ConfiguredEndpoint == env.AZURE_OPENAI_ENDPOINT.text

\* C1: when the upstream POST returns a non-success status S with body B, the
\* error response has status S and its detail contains B.
C1_UpstreamStatusPropagated ==
    \A r \in Reqs :
        (Done(r) /\ Replied(r) /\ frame[r].response.status_code \notin 200..299)
        => /\ IsError(frame[r].result)
           /\ frame[r].result.status = frame[r].response.status_code
           /\ Contains(frame[r].result.detail, frame[r].response.body.text)

\* C2: every upstream status in 200..299 whose JSON body carries a non-empty
\* token in one of the three locations yields the success response
\* {token, endpoint}.
C2_Every2xxWithTokenSucceeds ==
    \A r \in Reqs :
        (RepliedDict(r) /\ frame[r].response.status_code \in 200..299
                        /\ HasToken(frame[r].response.body.data))
        => /\ IsSuccess(frame[r].result)
           /\ frame[r].result.status = HTTP_OK

\* C3: the token returned is the first non-empty of client_secret.value, value
\* and token, in that order; a status-200 body whose client_secret is absent
\* or an object and that carries a non-empty token succeeds with that token.
C3_PriorityOrder ==
    \A r \in Reqs :
        /\ (Done(r) /\ IsSuccess(frame[r].result))
           => /\ RepliedDict(r)
              /\ HasToken(frame[r].response.body.data)
              /\ frame[r].result.token = PriorityToken(frame[r].response.body.data)
        /\ (RepliedDict(r) /\ frame[r].response.status_code = HTTP_OK
                           /\ CsWellFormed(frame[r].response.body.data)
                           /\ HasToken(frame[r].response.body.data))
           => IsSuccess(frame[r].result)

C3_Witness ==
    \E r \in Reqs :
        /\ RepliedDict(r)
        /\ frame[r].response.body.data = Dict(Obj(Str("tokA")), Str("tokB"), Str("tokC"))
        /\ IsSuccess(frame[r].result)
        /\ frame[r].result.token = "tokA"

C5_ExactlyOnePost ==
    \A r \in Reqs :
        /\ frame[r].pc = "idle" => frame[r].posts = 0
        /\ frame[r].pc # "idle" => frame[r].posts = 1
        /\ Done(r) => frame[r].result # None

C5_Witness ==
    \E r \in Reqs :
        /\ Done(r) /\ Replied(r)
        /\ frame[r].response.status_code = 401
        /\ IsError(frame[r].result)
        /\ frame[r].posts = 1

\* C6: every invocation ends either in a success response with a non-empty
\* token and the endpoint, or in an error response with a detail string and no
\* token; a transport failure, a non-2xx upstream status and a body without a
\* token all end in the error response.
C6_AllOrNothing ==
    \A r \in Reqs :
        Done(r) =>
            /\ \/ /\ IsSuccess(frame[r].result) /\ ~IsError(frame[r].result)
                  /\ frame[r].result.status = HTTP_OK
                  /\ frame[r].result.token # ""
                  /\ Len(frame[r].result.endpoint) > 0
               \/ /\ IsError(frame[r].result) /\ ~IsSuccess(frame[r].result)
                  /\ frame[r].result.status # HTTP_OK
                  /\ Len(frame[r].result.detail) > 0
            /\ ~Replied(r) => IsError(frame[r].result)
            /\ (Replied(r) /\ frame[r].response.status_code \notin 200..299)
                  => IsError(frame[r].result)
            /\ (RepliedDict(r) /\ ~HasToken(frame[r].response.body.data))
                  => IsError(frame[r].result)

C6_Witness ==
    \E r \in Reqs :
        /\ RepliedDict(r)
        /\ frame[r].response.status_code = HTTP_OK
        /\ frame[r].response.body.data = Dict(Absent, Str(""), Str(""))
        /\ IsError(frame[r].result)
        /\ ~IsSuccess(frame[r].result)

\* the outcome of a request handled alone: the POST it sends and its response
AlonePost(e, input) == Post(e, TokenRequest(input))
AloneResult(e, reply) ==
    ClientResponse(ExceptClauses(
        IF reply = None THEN TransportError
        ELSE AfterPost(e.AZURE_OPENAI_ENDPOINT.text, reply)))

\* C7: under every interleaving of in-flight requests, each request's POST and
\* response are those it would have had alone: they are determined by its own
\* voice, the configuration and its own upstream reply.
C7_RequestsIndependent ==
    \A r \in Reqs :
        /\ frame[r].pc # "idle" => frame[r].sent = AlonePost(env, frame[r].input)
        /\ Done(r) => frame[r].result = AloneResult(env, frame[r].response)

C7_Witness ==
    \E r, q \in Reqs :
        /\ r # q /\ Done(r) /\ Done(q)
        /\ frame[r].input # frame[q].input
        /\ IsSuccess(frame[r].result) /\ IsError(frame[q].result)

\* C8: in every success response the endpoint is the configured
\* AZURE_OPENAI_ENDPOINT followed by /openai/v1/realtime/calls?webrtcfilter=on,
\* whichever of the three shapes supplied the token.
C8_EndpointFromConfiguration ==
    \A r \in Reqs :
        (Done(r) /\ IsSuccess(frame[r].result))
        => frame[r].result.endpoint =
              ConfiguredEndpoint \o <<"/openai/v1/realtime/calls?webrtcfilter=on">>

C8_Witness ==
    \E r \in Reqs :
        /\ Done(r) /\ IsSuccess(frame[r].result)
        /\ frame[r].result.token = "tokB"
        /\ frame[r].result.endpoint =
              <<"https://west.example", "/openai/v1/realtime/calls?webrtcfilter=on">>

\* the SessionConfig with its output voice blanked
WithoutVoice(post) == [post EXCEPT !.json.session.audio.output.voice = ""]

\* C9: the output voice of the SessionConfig sent is the request's voice
\* unchanged, "alloy" when the request omits it, and nothing else in the POST
\* depends on the request.
C9_VoiceEmbedded ==
    \A r \in Reqs :
        frame[r].pc # "idle" =>
            /\ frame[r].sent.json.session.audio.output.voice =
                  (IF frame[r].input.k = "absent" THEN "alloy" ELSE frame[r].input.s)
            /\ \A other \in Inputs :
                  WithoutVoice(frame[r].sent) = WithoutVoice(Post(env, TokenRequest(other)))

C9_Witness ==
    \E r \in Reqs :
        /\ frame[r].pc = "awaiting"
        /\ frame[r].input = Absent
        /\ frame[r].sent.json.session.audio.output.voice = "alloy"

\* C10: for every status-200 body in which client_secret carries no non-empty
\* value (absent, an empty object, an object with empty value, null or not an
\* object), the request returns the top-level value if it is non-empty,
\* otherwise the top-level token, instead of failing.
C10_FallsThroughEveryShape ==
    \A r \in Reqs :
        (/\ RepliedDict(r)
         /\ frame[r].response.status_code = HTTP_OK
         /\ ~CsNonEmpty(frame[r].response.body.data)
         /\ NonEmpty(frame[r].response.body.data.value)
               \/ NonEmpty(frame[r].response.body.data.token))
        => /\ IsSuccess(frame[r].result)
           /\ frame[r].result.token = PriorityToken(frame[r].response.body.data)

====
